---- MODULE Spec2Model ----
(***************************************************************************)
(* The approval / execution core of claude-cmd (src/src/executor.js).      *)
(* A command is a sequence of one-character strings; the command list, the *)
(* loop cursor, the approve-all flag and the position of processCommands   *)
(* at each of its awaits are the state.                                    *)
(***************************************************************************)
EXTENDS Integers, Sequences, FiniteSets, TLC

(***************************************************************************)
(* Bounds of the model.                                                    *)
(***************************************************************************)
MaxCommands == 2   \* longest command list handed to processCommands
MaxRework == 1     \* 'e' / 'i' decisions taken within one run
MaxRuns == 2       \* calls of processCommands within one process

(***************************************************************************)
(* Characters and strings.                                                 *)
(***************************************************************************)
Letters == {"a", "b", "c", "e", "i", "l", "n", "q", "s", "x", "y", "A", "Y"}
Digits == {"1"}

\* String.prototype.toLowerCase, on the characters of the model
ToLowerChar(c) ==
    CASE c = "A" -> "a"
      [] c = "Y" -> "y"
      [] OTHER -> c

ToLowerCase(s) == [k \in 1..Len(s) |-> ToLowerChar(s[k])]

IsSpace(c) == c \in {" ", "\t", "\n", "\r"}

RECURSIVE TrimStart(_)
TrimStart(s) ==
    IF s # <<>> /\ IsSpace(Head(s)) THEN TrimStart(Tail(s)) ELSE s

RECURSIVE TrimEnd(_)
TrimEnd(s) ==
    IF s # <<>> /\ IsSpace(s[Len(s)]) THEN TrimEnd(SubSeq(s, 1, Len(s) - 1)) ELSE s

\* String.prototype.trim
Trim(s) == TrimEnd(TrimStart(s))

(***************************************************************************)
(* Placeholder detection: PLACEHOLDER_REGEX, a '<', a letter, any number  *)
(* of letters, digits, '_' or '-', and a '>'.                             *)
(***************************************************************************)
IsNameStart(c) == c \in Letters
IsNameChar(c) == c \in Letters \cup Digits \cup {"_", "-"}

\* end of the greedy run of name characters that starts at position p
RECURSIVE NameRunEnd(_, _)
NameRunEnd(s, p) ==
    IF p <= Len(s) /\ IsNameChar(s[p]) THEN NameRunEnd(s, p + 1) ELSE p

\* The regex tried at position p: the position of the closing '>' of the
\* match, or 0 when there is no match at p.  '>' is no name character, so
\* backtracking into the greedy run never helps.
MatchAt(s, p) ==
    IF p + 2 <= Len(s) /\ s[p] = "<" /\ IsNameStart(s[p + 1])
    THEN LET q == NameRunEnd(s, p + 2)
         IN  IF q <= Len(s) /\ s[q] = ">" THEN q ELSE 0
    ELSE 0

\* command.matchAll(PLACEHOLDER_REGEX): the matches from position p on, left
\* to right and non-overlapping, each as [from, to]
RECURSIVE MatchAll(_, _)
MatchAll(s, p) ==
    IF p > Len(s) THEN <<>>
    ELSE LET q == MatchAt(s, p)
         IN  IF q = 0 THEN MatchAll(s, p + 1)
             ELSE <<[from |-> p, to |-> q]>> \o MatchAll(s, q + 1)

hasPlaceholders(command) == \E p \in 1..Len(command) : MatchAt(command, p) # 0

\* mutant: repeated names are kept
UniqueKeepsAll(names, seen) == names

\* [...new Set(names)]: first occurrences, in order
RECURSIVE Unique(_, _)
Unique(names, seen) ==
    IF names = <<>> THEN <<>>
    ELSE IF Head(names) \in seen THEN Unique(Tail(names), seen)
    ELSE <<Head(names)>> \o Unique(Tail(names), seen \cup {Head(names)})

extractPlaceholders(command) ==
    LET matches == MatchAll(command, 1)
        names == [k \in 1..Len(matches) |->
                    SubSeq(command, matches[k].from + 1, matches[k].to - 1)]
    IN  Unique(names, {})

(***************************************************************************)
(* String.prototype.replace(new RegExp("<name>", "g"), value).  The        *)
(* replacement is a replacement pattern: "$$" inserts "$", "$&" the        *)
(* matched text, "$`" the text before the match, "$'" the text after it;   *)
(* the pattern has no capture group, so "$1" and "$<" stay as written.     *)
(***************************************************************************)
\* the characters U+0060 and U+0027, written by name
Backquote == "GRAVE"
Apostrophe == "APOS"

RECURSIVE GetSubstitution(_, _, _, _)
GetSubstitution(value, matched, before, after) ==
    IF value = <<>> THEN <<>>
    ELSE IF Head(value) = "$" /\ Len(value) >= 2 /\ value[2] \in {"$", "&", Backquote, Apostrophe}
    THEN (CASE value[2] = "$" -> <<"$">>
            [] value[2] = "&" -> matched
            [] value[2] = Backquote -> before
            [] value[2] = Apostrophe -> after)
         \o GetSubstitution(SubSeq(value, 3, Len(value)), matched, before, after)
    ELSE <<Head(value)>> \o GetSubstitution(Tail(value), matched, before, after)

\* the token <name> of a placeholder name
Token(name) == <<"<">> \o name \o <<">">>

TokenAt(s, p, token) ==
    /\ p + Len(token) - 1 <= Len(s)
    /\ SubSeq(s, p, p + Len(token) - 1) = token

\* s.replace(/token/g, value), scanning s from position p
RECURSIVE ReplaceFrom(_, _, _, _)
ReplaceFrom(s, p, token, value) ==
    IF p > Len(s) THEN <<>>
    ELSE IF TokenAt(s, p, token)
    THEN GetSubstitution(value, token, SubSeq(s, 1, p - 1),
                         SubSeq(s, p + Len(token), Len(s)))
         \o ReplaceFrom(s, p + Len(token), token, value)
    ELSE <<s[p]>> \o ReplaceFrom(s, p + 1, token, value)

ReplaceAll(s, name, value) == ReplaceFrom(s, 1, Token(name), value)

\* the loop over Object.entries(values) of fillPlaceholders: the entries
\* are visited in insertion order, each replacing in the running result
RECURSIVE ReplaceEntries(_, _)
ReplaceEntries(result, entries) ==
    IF entries = <<>> THEN result
    ELSE ReplaceEntries(ReplaceAll(result, Head(entries).name, Head(entries).value),
                        Tail(entries))

\* the entry fillPlaceholders stores for one answer of promptForValue
ValueEntry(placeholder, answer) ==
    LET value == Trim(answer)
    IN  [name |-> placeholder,
         value |-> IF value = <<>> THEN Token(placeholder) ELSE value]

(***************************************************************************)
(* displayCommand: placeholders are wrapped in colour codes.               *)
(***************************************************************************)
Yellow == "ESC[33m"
Cyan == "ESC[36m"
Bold == "ESC[1m"
Reset == "ESC[0m"
ColorCodes == {Yellow, Cyan, Bold, Reset}

RECURSIVE HighlightFrom(_, _)
HighlightFrom(s, p) ==
    IF p > Len(s) THEN <<>>
    ELSE LET q == MatchAt(s, p)
         IN  IF q = 0 THEN <<s[p]>> \o HighlightFrom(s, p + 1)
             ELSE <<Yellow>> \o SubSeq(s, p, q) \o <<Cyan, Bold>>
                  \o HighlightFrom(s, q + 1)

\* the command line displayCommand writes
DisplayLine(command) ==
    <<Cyan, Bold, "$", " ">> \o HighlightFrom(command, 1) \o <<Reset>>

(***************************************************************************)
(* Inputs of the model.                                                    *)
(***************************************************************************)
CtrlC == "ETX"     \* the character 0x03

\* the commands the generator may hand over
CommandPool ==
    { <<"l", "s">>,
      <<"<", "a", ">", "<", "b", ">", "<", "a", ">">> }

RECURSIVE ListsOfLen(_)
ListsOfLen(n) ==
    IF n = 0 THEN {<<>>}
    ELSE {<<c>> \o l : c \in CommandPool, l \in ListsOfLen(n - 1)}

CommandLists == UNION {ListsOfLen(n) : n \in 0..MaxCommands}

\* what one "data" event (a keypress) or one line of input may carry
Inputs ==
    { <<"y">>, <<"Y">>, <<"n">>, <<"e">>, <<"i">>, <<"a">>, <<"q">>,
      <<"Y", "e">>, <<CtrlC>>, <<>> }

\* lines typed at the edit prompt
EditAnswers ==
    { <<" ">>, <<" ", "<", "b", ">", " ">> }

\* lines typed at a value prompt
ValueAnswers ==
    { <<>>, <<" ", "x", " ">>, <<"$", "$">> }

\* how a spawned child ends: "close" with an exit code, "close" with no exit
\* code (null), or "error" when the spawn failed
ExitCodes == {0, 1}

\* the first argument of a "close" event: an exit code, or null
CloseCodes ==
    {[null |-> FALSE, code |-> c] : c \in ExitCodes} \cup {[null |-> TRUE, code |-> 0]}

(***************************************************************************)
(* State.                                                                  *)
(***************************************************************************)
VARIABLES
    isTTY,       \* process.stdin is a terminal with setRawMode
    rawMode,     \* process.stdin is in raw mode
    listeners,   \* "data" listeners registered on process.stdin
    pc,          \* where processCommands is: idle, loop, prompt, exec, edit,
                 \* value, returned; exited once process.exit was called
    commands,    \* the array processCommands was called with
    i,           \* the loop cursor (0-based)
    command,     \* the local variable command
    hasPh,       \* the local constant hasPh
    approveAll,  \* the local variable approveAll
    ctx,         \* the await on executeCommand that is pending: all, y, a
    pending,     \* fillPlaceholders: the placeholders not yet prompted for
    values,      \* fillPlaceholders: the entries of the object values
    out,         \* what was written and decided since this iteration began
    executed,    \* the children spawned in this run: [idx, by]
    results,     \* the exit codes executeCommand resolved with in this run
    decided,     \* the case of the switch last taken at each index of this run
    allAt,       \* the index at which 'a' was chosen in this run, or -1
    reworks,     \* 'e' / 'i' decisions taken in this run
    runs,        \* calls of processCommands so far
    prevAll,     \* whether the previous run had engaged approve-all
    generated,   \* the array as it was when processCommands was called
    children,    \* child processes spawned and not yet closed
    questions    \* rl.question callbacks not yet called

vars ==
    <<isTTY, rawMode, listeners, pc, commands, i, command, hasPh, approveAll,
      ctx, pending, values, out, executed, results, decided, allAt, reworks,
      runs, prevAll, generated, children, questions>>

None == <<"-">>

Ev(ev, idx, txt, code) == [ev |-> ev, idx |-> idx, txt |-> txt, code |-> code]

\* commands[j] of the 0-based JavaScript array
At(list, j) == list[j + 1]

\* mutant: the element is inserted at the index, not stored over it
PutInserted(list, j, c) ==
    SubSeq(list, 1, j) \o <<c>> \o SubSeq(list, j + 1, Len(list))

\* commands[j] = c
Put(list, j, c) == [list EXCEPT ![j + 1] = c]

Init ==
    /\ isTTY \in BOOLEAN
    /\ rawMode = FALSE
    /\ listeners = 0
    /\ pc = "idle"
    /\ commands = <<>>
    /\ i = 0
    /\ command = None
    /\ hasPh = FALSE
    /\ approveAll = FALSE
    /\ ctx = "-"
    /\ pending = <<>>
    /\ values = <<>>
    /\ out = <<>>
    /\ executed = <<>>
    /\ results = <<>>
    /\ decided = <<>>
    /\ allAt = -1
    /\ reworks = 0
    /\ runs = 0
    /\ prevAll = FALSE
    /\ generated = <<>>
    /\ children = 0
    /\ questions = 0

(***************************************************************************)
(* processCommands.                                                        *)
(***************************************************************************)
\* mutant: the flag is kept from the previous run
StaleApproveAll == approveAll

\* let approveAll = false
InitialApproveAll == FALSE

\* mutant: the test for the empty list is missing
IsEmptyListNever(cmds) == FALSE

\* !commands || commands.length === 0
IsEmptyList(cmds) == Len(cmds) = 0

\* the call: the locals of the invocation are fresh; the empty list is
\* reported and the function returns
Call(cmds) ==
    /\ pc \in {"idle", "returned"}
    /\ runs < MaxRuns
    /\ runs' = runs + 1
    /\ prevAll' = (allAt >= 0)
    /\ commands' = cmds
    /\ generated' = cmds
    /\ executed' = <<>>
    /\ results' = <<>>
    /\ decided' = [k \in 1..Len(cmds) |-> "-"]
    /\ allAt' = -1
    /\ reworks' = 0
    /\ command' = None
    /\ hasPh' = FALSE
    /\ pending' = <<>>
    /\ values' = <<>>
    /\ IF IsEmptyList(cmds)
       THEN /\ out' = <<Ev("nocommands", 0, <<>>, 0)>>
            /\ pc' = "returned"
            /\ UNCHANGED <<approveAll, i>>
       ELSE /\ approveAll' = InitialApproveAll
            /\ i' = 0
            /\ out' = <<>>
            /\ pc' = "loop"
    /\ UNCHANGED <<isTTY, rawMode, listeners, ctx, children, questions>>

\* displayCommand(command, index, total): the header is written when
\* total > 1 (code = total), the command line always
Display(cmd, index, total) ==
    Ev("display", index, DisplayLine(cmd), IF total > 1 THEN total ELSE 0)

\* the option string askApproval builds
OptionStr(hasPhArg, isMultiple) ==
    <<"y", "n", "e">>
    \o (IF hasPhArg THEN <<"i">> ELSE <<>>)
    \o (IF isMultiple THEN <<"a">> ELSE <<>>)

\* mutant: the placeholder test is not made again for the current text
StaleHasPh(cmd) == hasPh

\* the test made on the current element at the top of an iteration
CurrentHasPh(cmd) == hasPlaceholders(cmd)

\* executeCommand up to its await: the notice is written and sh -c command
\* is spawned
ExecStart(by, cmd, o) ==
    /\ pc' = "exec"
    /\ ctx' = by
    /\ out' = o \o <<Ev("executing", i, cmd, 0)>>
    /\ executed' = Append(executed, [idx |-> i, by |-> by])
    /\ children' = children + 1

\* askApproval up to its wait: the prompt is written; on a terminal raw
\* mode is switched on and the keypress listener registered
PromptStart(ph, o) ==
    /\ pc' = "prompt"
    /\ out' = o \o <<Ev("prompt", i, OptionStr(ph, Len(commands) > 1), 0)>>
    /\ IF isTTY
       THEN /\ rawMode' = TRUE
            /\ listeners' = listeners + 1
            /\ UNCHANGED questions
       ELSE /\ questions' = questions + 1
            /\ UNCHANGED <<rawMode, listeners>>

\* the loop test and the top of an iteration, up to the first await
LoopHead ==
    /\ pc = "loop"
    /\ IF i < Len(commands)
       THEN LET cmd == At(commands, i)
                ph == CurrentHasPh(cmd)
                shown == <<Display(cmd, i, Len(commands))>>
            IN  /\ command' = cmd
                /\ hasPh' = ph
                /\ IF approveAll
                   THEN /\ ExecStart("all", cmd, shown)
                        /\ UNCHANGED <<rawMode, listeners, questions>>
                   ELSE /\ PromptStart(ph, shown)
                        /\ UNCHANGED <<ctx, executed, children>>
       ELSE /\ pc' = "returned"
            /\ UNCHANGED <<command, hasPh, rawMode, listeners, ctx, out, executed,
                           children, questions>>
    /\ UNCHANGED <<isTTY, commands, i, approveAll, pending, values, results,
                   decided, allAt, reworks, runs, prevAll, generated>>

\* mutant: an unrecognized choice runs the command
BranchDefaultYes(choice) ==
    CASE choice = <<"n">> -> "skip"
      [] choice = <<"a">> -> "a"
      [] choice = <<"i">> -> "i"
      [] choice = <<"e">> -> "e"
      [] OTHER -> "y"

\* the case of the switch a choice selects
Branch(choice) ==
    CASE choice = <<"y">> -> "y"
      [] choice = <<"a">> -> "a"
      [] choice = <<"i">> -> "i"
      [] choice = <<"e">> -> "e"
      [] OTHER -> "skip"

\* mutant: the cursor is not advanced
NextIndexStuck(j) == j

\* mutant: past the last element the cursor goes back to the first
NextIndexWraps(j) == IF j + 1 >= Len(commands) THEN 0 ELSE j + 1

\* the cursor after an iteration that ended in break or continue: the i++
\* of the for statement
NextIndex(j) == j + 1

\* the switch on the choice askApproval resolved with, up to the next await
Decide(choice, written, asked) ==
    LET b == Branch(choice)
        o == written \o <<Ev("choice", i, choice, 0)>>
    IN  /\ decided' = [decided EXCEPT ![i + 1] = b]
        /\ CASE b = "y" ->
                  /\ ExecStart("y", command, o)
                  /\ questions' = asked
                  /\ UNCHANGED <<commands, i, approveAll, allAt, pending, values, reworks>>
             [] b = "a" ->
                  /\ approveAll' = TRUE
                  /\ allAt' = i
                  /\ ExecStart("a", command, o)
                  /\ questions' = asked
                  /\ UNCHANGED <<commands, i, pending, values, reworks>>
             [] b = "i" ->
                  LET placeholders == extractPlaceholders(command)
                      o2 == o \o <<Ev("fill", i, command, 0)>>
                  IN  /\ reworks' = reworks + 1
                      /\ IF placeholders = <<>>
                         THEN /\ commands' = Put(commands, i, command)
                              /\ i' = NextIndex(i - 1)
                              /\ pc' = "loop"
                              /\ out' = o2
                              /\ questions' = asked
                              /\ UNCHANGED <<pending, values>>
                         ELSE /\ pc' = "value"
                              /\ pending' = placeholders
                              /\ values' = <<>>
                              /\ out' = o2 \o <<Ev("valueprompt", i, Head(placeholders), 0)>>
                              /\ questions' = asked + 1
                              /\ UNCHANGED <<commands, i>>
                      /\ UNCHANGED <<approveAll, allAt, ctx, executed, children>>
             [] b = "e" ->
                  /\ reworks' = reworks + 1
                  /\ pc' = "edit"
                  /\ out' = o \o <<Ev("editprompt", i, command, 0)>>
                  /\ questions' = asked + 1
                  /\ UNCHANGED <<commands, i, approveAll, allAt, ctx, executed,
                                 pending, values, children>>
             [] b = "skip" ->
                  /\ out' = o \o <<Ev("skipped", i, command, 0)>>
                  /\ i' = NextIndex(i)
                  /\ pc' = "loop"
                  /\ questions' = asked
                  /\ UNCHANGED <<commands, approveAll, allAt, ctx, executed,
                                 pending, values, reworks, children>>
        /\ UNCHANGED <<isTTY, command, hasPh, results, runs, prevAll, generated>>

\* the bound on 'e' / 'i' decisions
WithinRework(choice) == Branch(choice) \in {"i", "e"} => reworks < MaxRework

\* mutant: 0x03 is handled like any other key
IsInterruptNever(key) == FALSE

\* key === "\u0003"
IsInterrupt(key) == key = <<CtrlC>>

\* mutant: the listener stays registered after a decision key
RemoveListenerForgotten(n) == n

\* process.stdin.removeListener("data", onKeypress)
RemoveListener(n) == n - 1

\* onKeypress: Ctrl-C restores normal mode and exits the process; any other
\* key restores normal mode, removes the listener, is echoed lower-cased
\* and resolves the prompt.  A "data" event carries at least one character.
Keypress(key) ==
    /\ pc = "prompt"
    /\ isTTY
    /\ key # <<>>
    /\ IF IsInterrupt(key)
       THEN /\ rawMode' = FALSE
            /\ pc' = "exited"
            /\ UNCHANGED <<isTTY, listeners, commands, i, command, hasPh,
                           approveAll, ctx, pending, values, out, executed,
                           results, decided, allAt, reworks, runs, prevAll,
                           generated, children, questions>>
       ELSE LET lower == ToLowerCase(key)
            IN  /\ WithinRework(lower)
                /\ rawMode' = FALSE
                /\ listeners' = RemoveListener(listeners)
                /\ Decide(lower, out \o <<Ev("echo", i, lower, 0)>>, questions)

\* the first character of a line, lower-cased; the empty line counts as "n"
FirstChar(answer) ==
    LET line == ToLowerCase(IF answer = <<>> THEN <<"n">> ELSE answer)
    IN  SubSeq(line, 1, 1)

\* the rl.question callback of askApproval (stdin is no terminal); a line
\* holding 0x03 is one more unrecognized answer and is left out
Answer(line) ==
    /\ pc = "prompt"
    /\ ~isTTY
    /\ line # <<CtrlC>>
    /\ WithinRework(FirstChar(line))
    /\ Decide(FirstChar(line), out, questions - 1)
    /\ UNCHANGED <<rawMode, listeners>>

(***************************************************************************)
(* executeCommand: the close and error handlers, and what processCommands  *)
(* does with the result.                                                   *)
(***************************************************************************)
\* mutant: a close without exit code counts as a failure
CloseResultNullFails(exitCode) == IF exitCode.null THEN 1 ELSE exitCode.code

\* exitCode ?? 0
CloseResult(exitCode) == IF exitCode.null THEN 0 ELSE exitCode.code

\* mutant: the error handler resolves like a close without exit code
SpawnErrorAsClean == CloseResult([null |-> TRUE, code |-> 0])

\* mutant: the error handler resolves with the errno of the failed spawn
SpawnErrorRawErrno == 0 - 2

\* the exit code the error handler resolves with
SpawnErrorResult == 1

\* mutant: the approve-all branch does not break on failure
StopsRunOnlyAfterA(by, exitCode) == by = "a" /\ exitCode # 0

\* mutant: a failure after 'y' ends the run as well
StopsRunOnAnyFailure(by, exitCode) == exitCode # 0

\* whether the result ends the run: break under approve-all, return after
\* 'a', neither after 'y'
StopsRun(by, exitCode) == by \in {"all", "a"} /\ exitCode # 0

\* whether the failure notice is written
Notice(by, exitCode) == exitCode # 0

\* the continuation of processCommands after await executeCommand
Resume(exitCode, o) ==
    /\ results' = Append(results, exitCode)
    /\ out' = IF Notice(ctx, exitCode)
              THEN o \o <<Ev("failed", i, command, exitCode)>>
              ELSE o
    /\ IF StopsRun(ctx, exitCode)
       THEN pc' = "returned" /\ i' = i
       ELSE pc' = "loop" /\ i' = NextIndex(i)
    /\ ctx' = "-"
    /\ children' = children - 1
    /\ UNCHANGED <<isTTY, rawMode, listeners, commands, command, hasPh,
                   approveAll, pending, values, executed, decided, allAt,
                   reworks, runs, prevAll, generated, questions>>

\* child.on("close")
ChildClose(exitCode) ==
    /\ pc = "exec"
    /\ Resume(CloseResult(exitCode),
              out \o <<Ev("close", i, IF exitCode.null THEN <<"null">> ELSE <<>>,
                          exitCode.code)>>)

\* child.on("error"): the error is reported, the result is exit code 1
ChildError ==
    /\ pc = "exec"
    /\ Resume(SpawnErrorResult, out \o <<Ev("execerror", i, command, 0)>>)

(***************************************************************************)
(* editCommand and fillPlaceholders: the answers to their prompts.         *)
(***************************************************************************)
\* mutant: the edited text is not trimmed
EditResultUntrimmed(answer, original) ==
    IF answer = <<>> THEN original ELSE answer

\* answer.trim() || command
EditResult(answer, original) ==
    IF Trim(answer) = <<>> THEN original ELSE Trim(answer)

\* the rl.question callback of editCommand, and case "e" after its await
EditLine(answer) ==
    /\ pc = "edit"
    /\ LET edited == EditResult(answer, command)
       IN  /\ command' = edited
           /\ commands' = Put(commands, i, edited)
    /\ i' = NextIndex(i - 1)
    /\ pc' = "loop"
    /\ out' = out \o <<Ev("edited", i, answer, 0)>>
    /\ questions' = questions - 1
    /\ UNCHANGED <<isTTY, rawMode, listeners, hasPh, approveAll, ctx, pending,
                   values, executed, results, decided, allAt, reworks, runs,
                   prevAll, generated, children>>

\* the text fillPlaceholders returns once every value is entered
FillResult(original, entries) == ReplaceEntries(original, entries)

\* the rl.question callback of promptForValue: the next placeholder is
\* prompted for, or fillPlaceholders returns and case "i" goes on
ValueLine(answer) ==
    /\ pc = "value"
    /\ LET entries == Append(values, ValueEntry(Head(pending), answer))
       IN  /\ values' = entries
           /\ pending' = Tail(pending)
           /\ IF Len(pending) > 1
              THEN /\ out' = out \o <<Ev("value", i, answer, 0),
                                      Ev("valueprompt", i, pending[2], 0)>>
                   /\ UNCHANGED <<command, commands, i, pc, questions>>
              ELSE LET filled == FillResult(command, entries)
                   IN  /\ command' = filled
                       /\ commands' = Put(commands, i, filled)
                       /\ i' = NextIndex(i - 1)
                       /\ pc' = "loop"
                       /\ questions' = questions - 1
                       /\ out' = out \o <<Ev("value", i, answer, 0),
                                          Ev("filled", i, filled, 0)>>
    /\ UNCHANGED <<isTTY, rawMode, listeners, hasPh, approveAll, ctx, executed,
                   results, decided, allAt, reworks, runs, prevAll, generated,
                   children>>

Next ==
    \/ \E cmds \in CommandLists : Call(cmds)
    \/ LoopHead
    \/ \E key \in Inputs : Keypress(key)
    \/ \E line \in Inputs : Answer(line)
    \/ \E exitCode \in CloseCodes : ChildClose(exitCode)
    \/ ChildError
    \/ \E answer \in EditAnswers : EditLine(answer)
    \/ \E answer \in ValueAnswers : ValueLine(answer)

Spec == Init /\ [][Next]_vars

(***************************************************************************)
(* Properties.                                                             *)
(***************************************************************************)
Last(s) == s[Len(s)]

HasEv(ev) == \E k \in 1..Len(out) : out[k].ev = ev

IsText(c) == c \notin ColorCodes

\* a written line without its colour codes
PlainText(line) == SelectSeq(line, IsText)

\* the indices of the list at which a child was spawned in this run
ExecutedIdx == {executed[k].idx : k \in 1..Len(executed)}

\* C1: the executor runs the element at index i only after a 'y' or 'a'
\* decision given at the prompt for index i, or under approve-all engaged
\* by an 'a' at an earlier index; an index whose last decision was a skip,
\* an edit or a fill has not been executed; the text handed to the shell is
\* the text displayed last for that index.
C1_ApprovalGatesExecution ==
    /\ pc = "exec" =>
         LET n == Len(out)
         IN  /\ Last(executed).idx = i
             /\ out[n].ev = "executing"
             /\ out[1].ev = "display" /\ out[1].idx = i
             /\ PlainText(out[1].txt) = <<"$", " ">> \o out[n].txt
             /\ out[n].txt = At(commands, i)
             /\ \/ /\ ctx \in {"y", "a"}
                   /\ out[2].ev = "prompt" /\ out[2].idx = i
                   /\ out[n - 1].ev = "choice" /\ out[n - 1].idx = i
                   /\ out[n - 1].txt = <<ctx>>
                   /\ \A k \in 3..(n - 2) : out[k].ev = "echo"
                \/ /\ ctx = "all"
                   /\ n = 2
                   /\ allAt >= 0 /\ allAt < i
                   /\ decided[allAt + 1] = "a"
    /\ \A k \in 1..Len(executed) :
         LET e == executed[k]
         IN  \/ e.by \in {"y", "a"} /\ decided[e.idx + 1] = e.by
             \/ e.by = "all" /\ allAt >= 0 /\ allAt < e.idx /\ decided[e.idx + 1] = "-"
    /\ \A k \in 1..Len(decided) :
         decided[k] \in {"skip", "e", "i", "-"} /\ (k - 1) \in ExecutedIdx
           => decided[k] = "-" /\ allAt >= 0 /\ allAt < k - 1

\* C1 witness: after a skip at index 0 and an edit at index 1, the edited
\* command runs on a 'y'
C1_Witness ==
    /\ pc = "exec" /\ ctx = "y" /\ i = 1
    /\ decided[1] = "skip"
    /\ reworks = 1
    /\ command = <<"<", "b", ">">>

\* C2: after 'a' at index k the commands k, k+1, ... run in that order with
\* no prompt in between, up to and including the first that exits non-zero;
\* after that one the failure notice is written and the run has ended with
\* the cursor still on it; a run that ended otherwise ran them all.
C2_ExecuteAllRunsInOrderUntilFailure ==
    (Len(commands) > 0 /\ allAt >= 0) =>
        LET first == CHOOSE k \in 1..Len(executed) : executed[k].by = "a"
            count == Len(executed) - first + 1
        IN  /\ \E k \in 1..Len(executed) : executed[k].by = "a"
            /\ executed[first].idx = allAt
            /\ \A k \in first..Len(executed) :
                 /\ executed[k].idx = allAt + (k - first)
                 /\ k > first => executed[k].by = "all"
            /\ pc \in {"loop", "exec", "returned"}
            /\ \A k \in first..Len(results) :
                 results[k] # 0 =>
                   /\ k = Len(executed)
                   /\ pc = "returned"
                   /\ i = executed[k].idx
                   /\ Last(out).ev = "failed" /\ Last(out).idx = i
            /\ pc = "returned" =>
                 \/ Last(results) # 0
                 \/ allAt + count = Len(commands) /\ i = Len(commands)
            /\ pc = "exec" => i = allAt + count - 1
            /\ pc = "loop" => i = allAt + count

\* C2 witness: 'a' at index 0 of two commands, the first succeeds, the
\* second fails and the run has ended there
C2_Witness ==
    /\ pc = "returned" /\ allAt = 0 /\ Len(commands) = 2
    /\ Len(executed) = 2 /\ results = <<0, 1>>
    /\ i = 1

\* C3: a non-zero exit after a single 'y' does not end the run: the failure
\* notice is written and the cursor advances; the next step displays and
\* prompts for the next index, or returns normally when there is none.
C3_YesFailureIsNotFatal ==
    [][ /\ (pc = "exec" /\ ctx = "y" /\ pc' # "exec" /\ Last(results') # 0) =>
             /\ pc' = "loop"
             /\ i' = i + 1
             /\ Last(out').ev = "failed" /\ Last(out').idx = i
             /\ ~approveAll /\ ~approveAll'
             /\ commands' = commands
        /\ (pc = "loop" /\ out # <<>> /\ Last(out).ev = "failed"
              /\ Last(executed).by = "y") =>
             IF i < Len(commands)
             THEN /\ pc' = "prompt"
                  /\ i' = i
                  /\ Len(out') = 2
                  /\ out'[1].ev = "display" /\ out'[1].idx = i
                  /\ out'[2].ev = "prompt" /\ out'[2].idx = i
                  /\ executed' = executed
             ELSE /\ pc' = "returned"
                  /\ out' = out
                  /\ executed' = executed
      ]_vars

\* C3 witness: 'y' at index 0 exited non-zero and index 1 is being prompted
C3_Witness ==
    /\ pc = "prompt" /\ i = 1
    /\ executed = <<[idx |-> 0, by |-> "y"]>>
    /\ results = <<1>>

\* whether a choice is one of the options the prompt of this iteration offered
Offered(choice) ==
    \E j \in 1..Len(out) :
        /\ out[j].ev = "prompt"
        /\ \E m \in 1..Len(out[j].txt) : choice = <<out[j].txt[m]>>

\* C4: a choice that the prompt did not offer ends as a skip: the skip
\* notice is written, the cursor advances, nothing is executed, approve-all
\* is not engaged, no value is prompted for and the element is unchanged.
C4_UnofferedInputIsSkipped ==
    \A k \in 1..Len(out) :
        (out[k].ev = "choice" /\ ~Offered(out[k].txt)) =>
            /\ Len(out) = k + 1
            /\ out[k + 1].ev = "skipped"
            /\ pc = "loop"
            /\ i = out[k].idx + 1
            /\ ~approveAll
            /\ out[k].idx \notin ExecutedIdx
            /\ PlainText(out[1].txt) = <<"$", " ">> \o At(commands, out[k].idx)

\* C5: approve-all is false when a run starts, whatever an earlier run left;
\* within a run it is never reset; it is set only by an 'a' decision; and
\* while it is set no approval, edit or value prompt is pending.
C5_ApproveAllMonotoneAndScoped ==
    /\ []((approveAll /\ Len(commands) > 0) => pc \notin {"prompt", "edit", "value"})
    /\ [][ /\ (pc \in {"idle", "returned"} /\ pc' = "loop") => ~approveAll'
           /\ (approveAll /\ pc \notin {"idle", "returned"}) => approveAll'
           /\ (~approveAll /\ approveAll') =>
                /\ pc = "prompt"
                /\ decided'[i + 1] = "a"
                /\ allAt' = i
                /\ \E k \in 1..Len(out') :
                     out'[k].ev = "choice" /\ out'[k].txt = <<"a">>
         ]_vars

\* C5 witness: a second run, after a run that engaged approve-all, is
\* prompting
C5_Witness ==
    /\ runs = 2 /\ prevAll
    /\ pc = "prompt" /\ ~approveAll

\* r is t without its leading and trailing white space
IsTrimOf(r, t) ==
    \E a, b \in 0..Len(t) :
        /\ a + b <= Len(t)
        /\ r = SubSeq(t, a + 1, Len(t) - b)
        /\ \A k \in 1..a : IsSpace(t[k])
        /\ \A k \in (Len(t) - b + 1)..Len(t) : IsSpace(t[k])
        /\ r # <<>> => ~IsSpace(r[1]) /\ ~IsSpace(r[Len(r)])

\* the options a prompt for the text of an element of a list of n has to offer
ExpectedOptions(text, n) ==
    {"y", "n", "e"}
    \cup (IF hasPlaceholders(text) THEN {"i"} ELSE {})
    \cup (IF n > 1 THEN {"a"} ELSE {})

Range(f) == {f[k] : k \in DOMAIN f}

\* C6: an edit that produced T puts T trimmed at index i, or leaves the
\* element when T trimmed is empty; nothing else in the list changes,
\* nothing is executed and the cursor stays; the next step displays the new
\* text at the same index and prompts with options computed from it.
C6_EditReplacesAndReprompts ==
    [][ /\ (pc = "edit" /\ pc' # "edit") =>
             LET T == Last(out').txt
                 new == At(commands', i)
             IN  /\ Last(out').ev = "edited"
                 /\ \/ new # <<>> /\ IsTrimOf(new, T)
                    \/ IsTrimOf(<<>>, T) /\ new = At(commands, i)
                 /\ Len(commands') = Len(commands)
                 /\ \A k \in 1..Len(commands) : k # i + 1 => commands'[k] = commands[k]
                 /\ executed' = executed
                 /\ i' = i
                 /\ pc' = "loop"
        /\ (pc = "loop" /\ out # <<>> /\ Last(out).ev = "edited") =>
             /\ pc' = "prompt"
             /\ i' = i
             /\ Len(out') = 2
             /\ out'[1].ev = "display" /\ out'[1].idx = i
             /\ PlainText(out'[1].txt) = <<"$", " ">> \o At(commands, i)
             /\ out'[2].ev = "prompt" /\ out'[2].idx = i
             /\ Range(out'[2].txt) = ExpectedOptions(At(commands, i), Len(commands))
             /\ commands' = commands
             /\ executed' = executed
      ]_vars

\* C6 witness: the only command was edited into <b> and is prompted for
\* again, now with the fill option
C6_Witness ==
    /\ pc = "prompt" /\ i = 0 /\ Len(commands) = 1
    /\ decided[1] = "e"
    /\ At(commands, 0) = <<"<", "b", ">">>
    /\ Last(out).txt = <<"y", "n", "e", "i">>

IsValuePrompt(e) == e.ev = "valueprompt"
IsValue(e) == e.ev = "value"
IsFill(e) == e.ev = "fill"

\* the white-space-trimmed form of t
TrimOf(t) ==
    CHOOSE r \in {SubSeq(t, a, b) : a \in 1..(Len(t) + 1), b \in 0..Len(t)} : IsTrimOf(r, t)

\* every occurrence of token in s, from position p on, replaced by the text v
RECURSIVE Substituted(_, _, _, _)
Substituted(s, p, token, v) ==
    IF p > Len(s) THEN <<>>
    ELSE IF TokenAt(s, p, token)
    THEN v \o Substituted(s, p + Len(token), token, v)
    ELSE <<s[p]>> \o Substituted(s, p + 1, token, v)

\* the names answered one after the other: a non-empty trimmed answer
\* replaces every <name>, an empty one leaves them
RECURSIVE FilledWith(_, _, _)
FilledWith(s, names, answers) ==
    IF names = <<>> THEN s
    ELSE LET v == TrimOf(Head(answers))
             t == IF v = <<>> THEN s ELSE Substituted(s, 1, Token(Head(names)), v)
         IN  FilledWith(t, Tail(names), Tail(answers))

\* C7: a fill prompts once per distinct placeholder name in order of first
\* occurrence; every <name> is replaced by its non-empty trimmed value and
\* left as it was for an empty one; the result is stored at index i, nothing
\* is executed and the cursor stays.
C7_FillReplacesEveryOccurrence ==
    (pc = "loop" /\ out # <<>> /\ Last(out).ev = "filled") =>
        LET original == SelectSeq(out, IsFill)[1].txt
            prompts == SelectSeq(out, IsValuePrompt)
            answers == SelectSeq(out, IsValue)
            names == [k \in 1..Len(prompts) |-> prompts[k].txt]
            typed == [k \in 1..Len(answers) |-> answers[k].txt]
        IN  /\ names = extractPlaceholders(original)
            /\ Len(typed) = Len(names)
            /\ At(commands, i) = FilledWith(original, names, typed)
            /\ i = Last(out).idx
            /\ i \notin ExecutedIdx

\* C8: the prompt offers y, n, e, plus i exactly when the current text of
\* the element at the cursor has a placeholder, plus a exactly when the list
\* has more than one entry, each once.
C8_OfferedOptions ==
    pc = "prompt" =>
        /\ Last(out).ev = "prompt"
        /\ Range(Last(out).txt) = ExpectedOptions(At(commands, i), Len(commands))
        /\ Len(Last(out).txt) = Cardinality(Range(Last(out).txt))

\* C8 witness: a fill removed the placeholders of an element of a list of
\* two, and the prompt that follows offers a but not i
C8_Witness ==
    /\ pc = "prompt" /\ Len(commands) = 2
    /\ decided[i + 1] = "i"
    /\ ~hasPlaceholders(At(commands, i))
    /\ Last(out).txt = <<"y", "n", "e", "a">>

\* C9 as stated, on a list of more than one entry (where 'a' is offered):
\* after a spawn failure the run goes on with the next index, whatever
\* started the command.
C9_SpawnFailureNeverEndsRun ==
    (HasEv("execerror") /\ Len(commands) > 1) =>
        /\ Last(results) = 1
        /\ i = Last(executed).idx + 1
        /\ pc = "loop" \/ (pc = "returned" /\ i = Len(commands))

\* C9 amended: a spawn failure is reported and resolved as exit code 1; after
\* a single 'y' the run goes on with the next index, after 'a' or under
\* approve-all it ends the run with the cursor on the failed command.
C9_SpawnFailureIsExitOne ==
    HasEv("execerror") =>
        /\ Last(results) = 1
        /\ Len(out) >= 2
        /\ out[Len(out) - 1].ev = "execerror"
        /\ Last(out).ev = "failed" /\ Last(out).code = 1
        /\ IF Last(executed).by = "y"
           THEN /\ i = Last(executed).idx + 1
                /\ pc = "loop" \/ (pc = "returned" /\ i = Len(commands))
           ELSE /\ i = Last(executed).idx
                /\ pc = "returned"

\* C9 witness: the spawn failed after 'y' at index 0 and the loop goes on
C9_Witness ==
    /\ HasEv("execerror")
    /\ pc = "loop" /\ i = 1
    /\ Last(executed).by = "y"

\* C10: the step taken on a spawn failure is the step taken on a close with
\* exit code 1, apart from the report of the spawn error: the same notice,
\* cursor, position and result, ending the run after 'a' or under
\* approve-all and going on after 'y'.
C10_SpawnFailureLikeExitOne ==
    [][ (pc = "exec" /\ pc' # "exec"
           /\ \E k \in 1..Len(out') : out'[k].ev = "execerror") =>
          LET report == out'[Len(out) + 1]
          IN  /\ report.ev = "execerror"
              /\ Resume(CloseResult([null |-> FALSE, code |-> 1]), out \o <<report>>)
              /\ ctx \in {"a", "all"} => pc' = "returned" /\ i' = i
              /\ ctx = "y" => pc' = "loop" /\ i' = i + 1
      ]_vars

\* C10 witness: the spawn failed under approve-all and the run has ended
C10_Witness ==
    /\ HasEv("execerror")
    /\ pc = "returned"
    /\ Last(executed).by = "all"
    /\ i < Len(commands)

\* C11: the engine never changes the length of the list; a step changes at
\* most the element at the cursor, and only the answer to an edit or fill
\* prompt opened by an 'e' or 'i' decision at that index writes it; every
\* element that differs from the generated text lies at an index the cursor
\* has reached, and the steps of 'y', 'n', 'a', unrecognized and approve-all
\* processing leave the whole list unchanged.
C11_OnlyReworkWritesAtCursor ==
    /\ [](/\ Len(commands) = Len(generated)
          /\ \A k \in 1..Len(commands) :
                commands[k] # generated[k] => (k <= i + 1 /\ reworks > 0))
    /\ [][ pc \notin {"idle", "returned"} =>
             /\ Len(commands') = Len(commands)
             /\ \A k \in 1..Len(commands) :
                   k # i + 1 => commands'[k] = commands[k]
             /\ pc \in {"loop", "prompt", "exec"} => commands' = commands
             /\ commands' # commands =>
                   (pc \in {"edit", "value"} /\ decided[i + 1] \in {"e", "i"})
         ]_vars

\* C11 witness: the second element of a two-element list was rewritten by an
\* edit or a fill and the first still holds the generated text
C11_Witness ==
    /\ Len(commands) = 2
    /\ commands[2] # generated[2]
    /\ commands[1] = generated[1]
    /\ pc = "loop" /\ i = 1

\* C12: the engine is strictly sequential: in every reachable state at most
\* one prompt is pending and at most one child is running, never both; a
\* child runs only while processCommands awaits it; the commands of a run
\* are executed in strictly increasing index order, each index at most
\* once, none beyond the cursor; and no step of a run moves the cursor back.
C12_StrictlySequential ==
    /\ [](/\ children \in 0..1
          /\ questions + listeners \in 0..1
          /\ children + questions + listeners <= 1
          /\ (children = 1) <=> (pc = "exec")
          /\ (questions + listeners = 1) <=> (pc \in {"prompt", "edit", "value", "exited"})
          /\ \A j, k \in 1..Len(executed) :
                j < k => executed[j].idx < executed[k].idx
          /\ \A k \in 1..Len(executed) : executed[k].idx <= i)
    /\ [][ pc \notin {"idle", "returned"} => i' >= i ]_vars

\* C12 witness: the second command is running after the first has run, both
\* approved at their own prompts
C12_Witness ==
    /\ pc = "exec" /\ children = 1 /\ questions + listeners = 0
    /\ Len(executed) = 2
    /\ executed[1] = [idx |-> 0, by |-> "y"]
    /\ executed[2] = [idx |-> 1, by |-> "y"]

\* C13: a Ctrl-C keypress at the approval prompt on a terminal restores
\* normal mode and ends the process at once: the key never resolves the
\* decision (it is neither echoed nor taken as a choice), the step writes
\* nothing, executes nothing and changes neither list nor cursor, and the
\* process takes no step afterwards, so that neither the current nor a
\* later command is executed.
C13_CtrlCTerminatesAtOnce ==
    /\ [](/\ isTTY => \A k \in 1..Len(out) :
                         out[k].ev \in {"echo", "choice"} => out[k].txt # <<CtrlC>>
          /\ pc = "exited" =>
                /\ isTTY /\ ~rawMode
                /\ Last(out).ev = "prompt" /\ Last(out).idx = i
                /\ decided[i + 1] \notin {"y", "a", "skip"}
                /\ \A k \in 1..Len(executed) : executed[k].idx < i
                /\ children = 0)
    /\ [][ /\ pc # "exited"
           /\ pc' = "exited" =>
                /\ pc = "prompt" /\ isTTY /\ rawMode /\ ~rawMode'
                /\ UNCHANGED <<out, executed, results, decided, commands, i,
                               approveAll, children, questions>>
         ]_vars

\* C13 witness: Ctrl-C at the prompt for the second command, after the first
\* was executed
C13_Witness ==
    /\ pc = "exited"
    /\ i = 1
    /\ Len(executed) = 1
    /\ ~rawMode

\* C14: called with an empty list, the engine reports that no commands were
\* generated and returns without entering the loop: that report is all it
\* writes, and it displays, prompts for and executes nothing.
C14_EmptyListReportsAndReturns ==
    (runs > 0 /\ Len(commands) = 0) =>
        /\ pc = "returned"
        /\ out = <<Ev("nocommands", 0, <<>>, 0)>>
        /\ executed = <<>> /\ results = <<>> /\ decided = <<>>
        /\ children = 0 /\ questions = 0 /\ listeners = 0 /\ ~rawMode

\* C14 witness: the second call was made with the empty list, after a run
\* over a non-empty list that engaged approve-all
C14_Witness ==
    /\ runs = 2 /\ prevAll
    /\ commands = <<>>
    /\ pc = "returned"
    /\ HasEv("nocommands")

(***************************************************************************)
(* The pure functions on their own: a specification starts from an         *)
(* argument drawn from a bounded set of texts and applies the function.    *)
(* The engine does not run: command holds the argument, pc the position,   *)
(* and every other variable keeps its value.                               *)
(***************************************************************************)
MaxPieces == 4

\* the texts made of at most n pieces
RECURSIVE TextsOf(_, _)
TextsOf(pieces, n) ==
    IF n = 0 THEN {<<>>}
    ELSE LET shorter == TextsOf(pieces, n - 1)
         IN  shorter \cup {t \o p : t \in shorter, p \in pieces}

\* the state in which a function is about to be applied to text
Applying(position, text) ==
    /\ isTTY = FALSE
    /\ rawMode = FALSE
    /\ listeners = 0
    /\ pc = position
    /\ commands = <<>>
    /\ i = 0
    /\ command = text
    /\ hasPh = FALSE
    /\ approveAll = FALSE
    /\ ctx = "-"
    /\ pending = <<>>
    /\ values = <<>>
    /\ out = <<>>
    /\ executed = <<>>
    /\ results = <<>>
    /\ decided = <<>>
    /\ allAt = -1
    /\ reworks = 0
    /\ runs = 0
    /\ prevAll = FALSE
    /\ generated = <<>>
    /\ children = 0
    /\ questions = 0

\* arguments of hasPlaceholders and extractPlaceholders: whole tokens, the
\* delimiters on their own, name characters and a space
PlaceholderPieces ==
    { <<"<", "a", ">">>, <<"<", "b", ">">>, <<"<">>, <<">">>,
      <<"a">>, <<"1">>, <<"-">>, <<" ">> }

InitDetect ==
    \E text \in TextsOf(PlaceholderPieces, MaxPieces) : Applying("argument", text)

\* hasPlaceholders(command) and extractPlaceholders(command)
Detect ==
    /\ pc = "argument"
    /\ hasPh' = hasPlaceholders(command)
    /\ pending' = extractPlaceholders(command)
    /\ pc' = "detected"
    /\ UNCHANGED <<isTTY, rawMode, listeners, commands, i, command,
                   approveAll, ctx, values, out, executed, results, decided,
                   allAt, reworks, runs, prevAll, generated, children,
                   questions>>

NextDetect == Detect

SpecDetect == InitDetect /\ [][NextDetect]_vars

\* s holds a token at p..q: '<', a letter, letters, digits, '_' or '-', '>'
IsTokenAt(s, p, q) ==
    /\ 1 <= p /\ p + 2 <= q /\ q <= Len(s)
    /\ s[p] = "<" /\ s[q] = ">"
    /\ IsNameStart(s[p + 1])
    /\ \A k \in (p + 2)..(q - 1) : IsNameChar(s[k])

\* the names of all tokens of s
TokenNames(s) ==
    {SubSeq(s, p + 1, q - 1) : <<p, q>> \in
        {pq \in (1..Len(s)) \X (1..Len(s)) : IsTokenAt(s, pq[1], pq[2])}}

\* the position of the first token of s with the given name
FirstTokenAt(s, name) ==
    CHOOSE p \in 1..Len(s) :
        /\ IsTokenAt(s, p, p + Len(name) + 1)
        /\ SubSeq(s, p + 1, p + Len(name)) = name
        /\ \A r \in 1..(p - 1) :
              ~(IsTokenAt(s, r, r + Len(name) + 1)
                  /\ SubSeq(s, r + 1, r + Len(name)) = name)

\* C15: extractPlaceholders returns the names of all <name> tokens of the
\* command, each exactly once, in the order of their first occurrence, and
\* hasPlaceholders is true exactly when that list is non-empty.
C15_ExtractPlaceholders ==
    pc = "detected" =>
        /\ Range(pending) = TokenNames(command)
        /\ \A j, k \in 1..Len(pending) :
              j < k => /\ pending[j] # pending[k]
                       /\ FirstTokenAt(command, pending[j])
                             < FirstTokenAt(command, pending[k])
        /\ hasPh <=> (pending # <<>>)

\* C15 witness: a repeated name is returned once, before a name that first
\* occurs after it
C15_Witness ==
    /\ pc = "detected"
    /\ command = <<"<", "a", ">", "<", "b", ">", "<", "a", ">">>
    /\ pending = << <<"a">>, <<"b">> >>
    /\ hasPh

(***************************************************************************)
(* generateCommands: the parsing of the text the generation returned.      *)
(***************************************************************************)
Fence == <<Backquote, Backquote, Backquote>>

\* the alternatives of the language tag, in the order the regex tries them
Bash == <<"b", "a", "s", "h">>
Sh == <<"s", "h">>
Shell == <<"s", "h", "e", "l", "l">>

\* the optional group (?:bash|sh|shell)? tried at position p: the length of
\* the first alternative that matches.  What follows the group is optional
\* and always matches, so the regex never backtracks into the alternation.
TagLength(s, p) ==
    IF TokenAt(s, p, Bash) THEN Len(Bash)
    ELSE IF TokenAt(s, p, Sh) THEN Len(Sh)
    ELSE IF TokenAt(s, p, Shell) THEN Len(Shell)
    ELSE 0

\* the first replace of generateCommands: a fence, the optional language
\* tag and the optional line break are removed, scanning s from position p
RECURSIVE StripTaggedFences(_, _)
StripTaggedFences(s, p) ==
    IF p > Len(s) THEN <<>>
    ELSE IF TokenAt(s, p, Fence)
    THEN LET q == p + Len(Fence) + TagLength(s, p + Len(Fence))
             r == IF q <= Len(s) /\ s[q] = "\n" THEN q + 1 ELSE q
         IN  StripTaggedFences(s, r)
    ELSE <<s[p]>> \o StripTaggedFences(s, p + 1)

\* the second replace: the fences that are left are removed
RECURSIVE StripFences(_, _)
StripFences(s, p) ==
    IF p > Len(s) THEN <<>>
    ELSE IF TokenAt(s, p, Fence) THEN StripFences(s, p + Len(Fence))
    ELSE <<s[p]>> \o StripFences(s, p + 1)

\* cleanOutput
CleanOutput(commandOutput) ==
    Trim(StripFences(StripTaggedFences(commandOutput, 1), 1))

\* s.split("\n"): the line that starts at the head of s and the lines
\* after it; the empty text is one empty line
RECURSIVE SplitLines(_)
SplitLines(s) ==
    IF \A k \in 1..Len(s) : s[k] # "\n" THEN <<s>>
    ELSE LET n == CHOOSE k \in 1..Len(s) :
                     s[k] = "\n" /\ \A m \in 1..(k - 1) : s[m] # "\n"
         IN  <<SubSeq(s, 1, n - 1)>> \o SplitLines(SubSeq(s, n + 1, Len(s)))

\* line.length > 0 && !line.startsWith("#")
IsCommandLine(line) == Len(line) > 0 /\ Head(line) # "#"

\* the list generateCommands returns for the text of the generation
ParseCommands(commandOutput) ==
    LET lines == SplitLines(CleanOutput(commandOutput))
        trimmed == [k \in 1..Len(lines) |-> Trim(lines[k])]
    IN  SelectSeq(trimmed, IsCommandLine)

\* texts of the generation: fences, language tags, line breaks, a command,
\* a comment sign and a space
OutputPieces ==
    { Fence, Bash, Sh, Shell, <<"\n">>, <<"l", "s">>, <<"#">>, <<" ">> }

InitParse ==
    \E text \in TextsOf(OutputPieces, MaxPieces) : Applying("output", text)

\* the parsing at the end of generateCommands
Parse ==
    /\ pc = "output"
    /\ commands' = ParseCommands(command)
    /\ pc' = "parsed"
    /\ UNCHANGED <<isTTY, rawMode, listeners, i, command, hasPh, approveAll,
                   ctx, pending, values, out, executed, results, decided,
                   allAt, reworks, runs, prevAll, generated, children,
                   questions>>

NextParse == Parse

SpecParse == InitParse /\ [][NextParse]_vars

\* a fence line: a fence, alone or with one of the language tags
FenceLines == {Fence, Fence \o Bash, Fence \o Sh, Fence \o Shell}

\* every backquote of the text belongs to a fence line
IsFenced(text) ==
    LET lines == SplitLines(text)
    IN  \A k \in 1..Len(lines) :
           Backquote \in Range(lines[k]) => Trim(lines[k]) \in FenceLines

\* what a line of the text contributes
IsKept(line) == line # <<>> /\ Head(line) # "#" /\ line \notin FenceLines

\* C16: for a text whose backquotes all belong to fence lines,
\* generateCommands returns the text's lines in order, each trimmed, without
\* the empty lines, the lines beginning with '#' and the fence lines (with
\* or without a language tag bash, sh or shell): a fence line contributes no
\* element and no leftover fragment.
C16_FencesStrippedCompletely ==
    (pc = "parsed" /\ IsFenced(command)) =>
        LET lines == SplitLines(command)
            trimmed == [k \in 1..Len(lines) |-> Trim(lines[k])]
        IN  commands = SelectSeq(trimmed, IsKept)

\* C17: a command that ends without an exit code (killed by a signal) is
\* resolved as exit code 0 and processed as a success: no failure notice
\* is written, approve-all keeps its value, and after 'y', after 'a' and
\* under approve-all alike the run goes on with the next index.
C17_SignalDeathCountsAsSuccess ==
    [][ (pc = "exec" /\ pc' # "exec"
           /\ out'[Len(out) + 1].ev = "close"
           /\ out'[Len(out) + 1].txt = <<"null">>) =>
          /\ Last(results') = 0
          /\ Len(out') = Len(out) + 1
          /\ pc' = "loop"
          /\ i' = i + 1
          /\ approveAll' = approveAll
      ]_vars

\* C17 witness: the command run by 'a' ended without exit code and the loop
\* goes on with the next index under approve-all
C17_Witness ==
    /\ pc = "loop"
    /\ out # <<>>
    /\ Last(out).ev = "close" /\ Last(out).txt = <<"null">>
    /\ Last(executed).by = "a"
    /\ approveAll
    /\ i = Last(executed).idx + 1
    /\ i < Len(commands)

(***************************************************************************)
(* One run of the engine under the assumptions that every prompt is        *)
(* answered and every child ends: the event loop runs the continuation of  *)
(* a resolved await, and each kind of answer that is awaited eventually    *)
(* comes.  The bound MaxRework makes the 'e' / 'i' decisions finite.       *)
(***************************************************************************)
LiveCommands == 1

LiveLists == UNION {ListsOfLen(n) : n \in 0..LiveCommands}

FairNext ==
    \/ \E cmds \in LiveLists : runs = 0 /\ Call(cmds)
    \/ LoopHead
    \/ \E key \in Inputs : Keypress(key)
    \/ \E line \in Inputs : Answer(line)
    \/ \E exitCode \in CloseCodes : ChildClose(exitCode)
    \/ ChildError
    \/ \E answer \in EditAnswers : EditLine(answer)
    \/ \E answer \in ValueAnswers : ValueLine(answer)

FairSpec ==
    /\ Init
    /\ [][FairNext]_vars
    /\ WF_vars(LoopHead)
    /\ WF_vars(\E key \in Inputs : Keypress(key))
    /\ WF_vars(\E line \in Inputs : Answer(line))
    /\ WF_vars((\E exitCode \in CloseCodes : ChildClose(exitCode)) \/ ChildError)
    /\ WF_vars(\E answer \in EditAnswers : EditLine(answer))
    /\ WF_vars(\E answer \in ValueAnswers : ValueLine(answer))

FillCommands ==
    { <<"<", "a", ">", " ", "<", "b", ">">>,
      <<"<", "b", ">", " ", "<", "a", ">">>,
      <<"<", "a", ">", "<", "b", ">", "<", "a", ">">> }

\* lines typed at a value prompt: nothing, plain text, and text that holds
\* a token
FillAnswers ==
    { <<>>, <<"x">>, <<" ", "y", " ">>, <<"<", "a", ">">>, <<"<", "b", ">">>,
      <<"x", "<", "b", ">">> }

InitFill ==
    \E cmd \in FillCommands :
        /\ isTTY \in BOOLEAN
        /\ rawMode = FALSE
        /\ listeners = 0
        /\ pc = "value"
        /\ commands = <<cmd>>
        /\ generated = <<cmd>>
        /\ i = 0
        /\ command = cmd
        /\ hasPh = hasPlaceholders(cmd)
        /\ approveAll = FALSE
        /\ ctx = "-"
        /\ pending = extractPlaceholders(cmd)
        /\ values = <<>>
        /\ out = <<Ev("fill", 0, cmd, 0),
                   Ev("valueprompt", 0, Head(extractPlaceholders(cmd)), 0)>>
        /\ executed = <<>>
        /\ results = <<>>
        /\ decided = <<"i">>
        /\ allAt = -1
        /\ reworks = 1
        /\ runs = 1
        /\ prevAll = FALSE
        /\ children = 0
        /\ questions = 1

NextFill == \E answer \in FillAnswers : ValueLine(answer)

SpecFill == InitFill /\ [][NextFill]_vars

\* the text in which every token of an entry found in s from position p on
\* is replaced by the value of that entry, and nothing else
RECURSIVE Simultaneous(_, _, _)
Simultaneous(s, p, entries) ==
    IF p > Len(s) THEN <<>>
    ELSE LET hits == {k \in 1..Len(entries) : TokenAt(s, p, Token(entries[k].name))}
         IN  IF hits = {} THEN <<s[p]>> \o Simultaneous(s, p + 1, entries)
             ELSE LET k == CHOOSE h \in hits : TRUE
                  IN  entries[k].value
                      \o Simultaneous(s, p + Len(Token(entries[k].name)), entries)

\* C19: the text fillPlaceholders stores is the original command with each
\* token <name> replaced by the value entered for that name (the token
\* itself when the value is empty); text inserted as a value is not
\* substituted again.
C19_SubstitutionIsSimultaneous ==
    (pc = "loop" /\ out # <<>> /\ Last(out).ev = "filled") =>
        At(commands, i) = Simultaneous(At(generated, i), 1, values)

\* C20: raw mode is held only while an approval prompt is pending on a
\* terminal, where it is on and exactly one keypress listener is
\* registered; while a child is running, while an edit or value prompt is
\* pending and once processCommands has returned, the input is in normal
\* mode and no keypress listener is registered; after Ctrl-C the input is
\* in normal mode.
C20_RawModeOnlyWhilePrompting ==
    /\ rawMode => (pc = "prompt" /\ isTTY)
    /\ (pc = "prompt" /\ isTTY) => (rawMode /\ listeners = 1)
    /\ pc \in {"exec", "edit", "value", "returned"} =>
          (~rawMode /\ listeners = 0)
    /\ pc = "exited" => ~rawMode

\* C20 witness: on a terminal the second command is running after two
\* approval prompts were answered by a key
C20_Witness ==
    /\ isTTY
    /\ pc = "exec"
    /\ i = 1
    /\ HasEv("echo")
    /\ ~rawMode /\ listeners = 0

====
